---- MODULE Spec2Model ----
(***************************************************************************)
(* Model of Scripts/og_membership_test.py: the orthologous-cluster         *)
(* membership comparison pipeline (load, index build, filter, all-vs-all   *)
(* comparison, averaging, threshold test, report) with its checkpoints,    *)
(* and of the two scripts of PublicationSupplement: subsample_list.py and  *)
(* checkFASTA_dupes.py.                                                    *)
(*                                                                         *)
(* Representation.                                                         *)
(*  - A Python dict is a sequence of entries [k |-> key, v |-> value] with *)
(*    pairwise distinct keys, in insertion order.                          *)
(*  - A Python float in [0,1] produced by the program is a reduced         *)
(*    fraction <<n, d>>; the rounding of floats is not modelled.           *)
(*  - difflib's "autojunk" heuristic only acts on sequences of 200 or more *)
(*    elements and is inert for the list lengths explored here.            *)
(***************************************************************************)
EXTENDS Integers, Sequences, FiniteSets, TLC

VARIABLES
    args,             \* parsed command line: run_all, checkpoint_num, input_files (number of
                      \* -d paths, 0 when -d is absent), input_json and test_identifier (given or not)
    membership_percent, \* args.membership_percent, once threshold_test has read it
    program_list,     \* the four program names
    cluster_files,    \* contents of the four -d files, in order
    input_json,       \* contents of the -j file
    malformed,        \* a file that the run reads is not valid JSON
    pc,               \* position of the script
    prog_dicts,       \* <<prog1_dict, prog2_dict, prog3_dict, prog4_dict>>
    prot_dict,
    filt_prot_dict,
    comparison_dict,
    cmp_i,            \* number of keys of filt_prot_dict already compared
    pair_score,       \* the locals Prog1_vs_Prog2 .. Prog3_vs_Prog4 of membership_test
    og_score_dict,
    threshold_dict,
    files,            \* files written by the run
    fresh,            \* results of the complete run whose checkpoint the present run resumes
    \* subsample_list.py
    argv,             \* its command line: the lines of the file input_list, out_count, required_file
    file_list,
    out_count,
    out_list,
    output_file,      \* the file named output_name
    sub_pc,           \* position of subsample_list.py
    \* checkFASTA_dupes.py
    ref_df,           \* rows [seq_header, origin_file] of the input file
    fasta_files,      \* the lines of each FASTA file of the working directory
    row_i,            \* number of rows of ref_df already checked
    outfile_dupes,    \* lines written to <input>_True.txt
    outfile_diffs,    \* lines written to <input>_False.txt
    dupes_pc          \* position of checkFASTA_dupes.py

\* the state of og_membership_test.py
pipeline == <<args, membership_percent, program_list, cluster_files, input_json, malformed, pc,
              prog_dicts, prot_dict,
              filt_prot_dict, comparison_dict, cmp_i, pair_score, og_score_dict, threshold_dict,
              files, fresh>>

\* the state of the two scripts of PublicationSupplement
subsample == <<argv, file_list, out_count, out_list, output_file, sub_pc>>

dupes == <<ref_df, fasta_files, row_i, outfile_dupes, outfile_diffs, dupes_pc>>

supplement == <<subsample, dupes>>

vars == <<pipeline, supplement>>

(***************************************************************************)
(* Bounds and input alphabets                                              *)
(***************************************************************************)
MaxMembers == 4        \* total number of (cluster, member) rows over the four -d files
MaxResume == 2         \* cluster ids of the -j index plus members of the -d files, resumed runs

Proteins == {"p1", "p2"}
ClusterIds == {"OG1", "OG2"}

(***************************************************************************)
(* Python dicts                                                            *)
(***************************************************************************)
Keys(d) == {d[i].k : i \in 1..Len(d)}

HasKey(d, key) == \E i \in 1..Len(d) : d[i].k = key

Get(d, key) == d[CHOOSE i \in 1..Len(d) : d[i].k = key].v

\* d[key] = val: overwrite in place, or append a new entry
Put(d, key, val) ==
    IF HasKey(d, key)
    THEN [i \in 1..Len(d) |-> IF d[i].k = key THEN [k |-> key, v |-> val] ELSE d[i]]
    ELSE Append(d, [k |-> key, v |-> val])

(***************************************************************************)
(* Floats as reduced fractions                                             *)
(***************************************************************************)
RECURSIVE GCD(_, _)
GCD(a, b) == IF b = 0 THEN a ELSE GCD(b, a % b)

Frac(n, d) == LET g == GCD(n, d) IN <<n \div g, d \div g>>

FracAdd(x, y) == Frac(x[1] * y[2] + y[1] * x[2], x[2] * y[2])

FracGeq(x, y) == x[1] * y[2] >= y[1] * x[2]

(***************************************************************************)
(* difflib.SequenceMatcher(None, a, b).ratio()                             *)
(* Indices are Python's: 0-based, ranges half-open.                        *)
(***************************************************************************)
RECURSIVE RunLen(_, _, _, _, _, _)
RunLen(a, b, i, j, ahi, bhi) ==
    IF i < ahi /\ j < bhi /\ a[i + 1] = b[j + 1]
    THEN 1 + RunLen(a, b, i + 1, j + 1, ahi, bhi)
    ELSE 0

\* the longest matching block of a[alo:ahi] and b[blo:bhi]; of all longest
\* blocks the one starting earliest in a, and of those the earliest in b
find_longest_match(a, b, alo, ahi, blo, bhi) ==
    LET starts == (alo..(ahi - 1)) \X (blo..(bhi - 1))
        size(s) == RunLen(a, b, s[1], s[2], ahi, bhi)
        longest == {s \in starts : \A t \in starts : size(t) <= size(s)}
        first_a == {s \in longest : \A t \in longest : s[1] <= t[1]}
        best == CHOOSE s \in first_a : \A t \in first_a : s[2] <= t[2]
    IN  IF starts = {} \/ size(best) = 0
        THEN <<alo, blo, 0>>
        ELSE <<best[1], best[2], size(best)>>

\* sum of the sizes of get_matching_blocks(): the longest block, then the
\* pieces to its left and to its right
RECURSIVE matches(_, _, _, _, _, _)
matches(a, b, alo, ahi, blo, bhi) ==
    LET m == find_longest_match(a, b, alo, ahi, blo, bhi)
        i == m[1]
        j == m[2]
        k == m[3]
    IN  IF k = 0 THEN 0
        ELSE k
             + (IF alo < i /\ blo < j THEN matches(a, b, alo, i, blo, j) ELSE 0)
             + (IF i + k < ahi /\ j + k < bhi
                THEN matches(a, b, i + k, ahi, j + k, bhi) ELSE 0)

\* Faulty variant: the matches are not doubled (M / T instead of 2 * M / T)
ratio_unscaled(a, b) ==
    LET length == Len(a) + Len(b)
    IN  IF length = 0 THEN <<1, 1>>
        ELSE Frac(matches(a, b, 0, Len(a), 0, Len(b)), length)

ratio(a, b) ==
    LET length == Len(a) + Len(b)
    IN  IF length = 0 THEN <<1, 1>>
        ELSE Frac(2 * matches(a, b, 0, Len(a), 0, Len(b)), length)

(***************************************************************************)
(* Inputs: the four cluster files, the -j file, the command line           *)
(***************************************************************************)
SENTINEL == "-"

Percents == {0, 50, 100, 101}

DefaultProgramList == <<"Program_1", "Program_2", "Program_3", "Program_4">>

ProgramNameInputs == {DefaultProgramList, <<"A", "A", "B", "C">>}

\* -a and -c are mutually exclusive and one of them is required
RunGroup ==
    [run_all : {TRUE}, checkpoint_num : {0}]
    \cup [run_all : {FALSE}, checkpoint_num : 2..5]

\* a command line: the run type, the number of -d paths, -j and -i given or not
CommandLine(g, d, j, i) ==
    [run_all |-> g.run_all, checkpoint_num |-> g.checkpoint_num,
     input_files |-> d, input_json |-> j, test_identifier |-> i]

\* the command lines of the usage notes: -a with four -d files; -c N with -j and
\* -i, and with four -d files for N = 2, 3
ArgsInputs ==
    {CommandLine(g, IF g.run_all \/ g.checkpoint_num \in {2, 3} THEN 4 ELSE 0,
                 ~g.run_all, ~g.run_all) : g \in RunGroup}

\* the sanity checks on the parsed arguments: parser.error is called
arg_error(a) ==
    \/ a.run_all /\ a.input_files = 0
    \/ /\ a.checkpoint_num # 0
       /\ \/ a.checkpoint_num = 2 /\ a.input_files = 0
          \/ ~a.input_json
          \/ ~a.test_identifier

\* member lists of n proteins, no protein listed twice in a cluster
MemberLists(n) ==
    {l \in [1..n -> Proteins] : \A i, j \in 1..n : i # j => l[i] # l[j]}

\* the cluster files (cluster id -> member list) with m members in all
ClusterFilesOfSize(m) ==
    IF m = 0 THEN {<<>>}
    ELSE {<<[k |-> c, v |-> l]>> : c \in ClusterIds, l \in MemberLists(m)}
         \cup UNION {
                {<<[k |-> c[1], v |-> l1], [k |-> c[2], v |-> l2]>> :
                    c \in {x \in ClusterIds \X ClusterIds : x[1] # x[2]},
                    l1 \in MemberLists(n), l2 \in MemberLists(m - n)}
                : n \in 1..(m - 1)}

SumTo4(s) == s[1] + s[2] + s[3] + s[4]

\* four cluster files with at most b members in all
ClusterFileInputs(b) ==
    UNION {
        {<<f1, f2, f3, f4>> :
            f1 \in ClusterFilesOfSize(s[1]), f2 \in ClusterFilesOfSize(s[2]),
            f3 \in ClusterFilesOfSize(s[3]), f4 \in ClusterFilesOfSize(s[4])}
        : s \in {t \in [1..4 -> 0..b] : SumTo4(t) <= b}}

Slots == ClusterIds \cup {SENTINEL}

NonSentinel(rec) == Cardinality({k \in 1..4 : rec[k] # SENTINEL})

\* membership records of the data model: four slots, each a cluster id or the sentinel
MembershipRecords(n) == {rec \in [1..4 -> Slots] : NonSentinel(rec) = n}

\* membership indexes (protein id -> record) of at most two proteins, every
\* record holding at least `least` cluster ids, with b cluster ids in all
ProtDictsOfCost(b, least) ==
    LET recs == UNION {MembershipRecords(n) : n \in least..4}
        one == {<<[k |-> p, v |-> r]>> : p \in Proteins, r \in recs}
        two == {<<[k |-> p[1], v |-> r1], [k |-> p[2], v |-> r2]>> :
                   p \in {x \in Proteins \X Proteins : x[1] # x[2]},
                   r1 \in recs, r2 \in recs}
        cost(d) == IF Len(d) = 0 THEN 0
                   ELSE IF Len(d) = 1 THEN NonSentinel(d[1].v)
                   ELSE NonSentinel(d[1].v) + NonSentinel(d[2].v)
    IN  {d \in {<<>>} \cup one \cup two : cost(d) = b}

(***************************************************************************)
(* data_2_pandas: the dataframe of one program, a row per (cluster, member)*)
(***************************************************************************)
RECURSIVE DataFrame(_)
DataFrame(prog_dict) ==
    IF prog_dict = <<>> THEN <<>>
    ELSE [i \in 1..Len(Head(prog_dict).v) |->
             [Query |-> Head(prog_dict).v[i], OG |-> Head(prog_dict).k]]
         \o DataFrame(Tail(prog_dict))

Queries(df) == {df[i].Query : i \in 1..Len(df)}

(***************************************************************************)
(* create_prot_dict                                                        *)
(***************************************************************************)
\* Faulty variant: the cluster of the first row of the dataframe, whatever its protein
top_og(df, prot) == df[1].OG

\* Faulty variant: .iloc[-1], the cluster of the last row of prot
last_og(df, prot) ==
    LET rows == {i \in 1..Len(df) : df[i].Query = prot}
    IN  df[CHOOSE i \in rows : \A j \in rows : i >= j].OG

\* df.loc[df['Query'] == prot, colname].iloc[0]: the cluster of the first row of prot
first_og(df, prot) ==
    LET rows == {i \in 1..Len(df) : df[i].Query = prot}
    IN  df[CHOOSE i \in rows : \A j \in rows : i <= j].OG

prog_og(df, prot) == IF prot \in Queries(df) THEN first_og(df, prot) ELSE SENTINEL

\* Faulty variant: the queries of the fourth program are left out of the union
prot_queries_of_three(dicts) == UNION {Queries(DataFrame(dicts[n])) : n \in 1..3}

prot_queries(dicts) == UNION {Queries(DataFrame(dicts[n])) : n \in 1..4}

\* the orders in which a Python set may be iterated
Orders(S) == {o \in [1..Cardinality(S) -> S] : \A i, j \in DOMAIN o : i # j => o[i] # o[j]}

\* order: the iteration order of the set prot_queries
create_prot_dict(dicts, order) ==
    [i \in 1..Len(order) |->
        [k |-> order[i],
         v |-> [n \in 1..4 |-> prog_og(DataFrame(dicts[n]), order[i])]]]

(***************************************************************************)
(* filter_prot_dict                                                        *)
(***************************************************************************)
SetOf(rec) == {rec[n] : n \in 1..Len(rec)}

\* Faulty variant: a record is removed when its set of slots has one element (test off by one)
filter_prot_dict_len1(d) ==
    LET keep(e) == Cardinality(SetOf(e.v)) # 1
    IN  SelectSeq(d, keep)

\* Faulty variant: the keys are deleted from the dictionary while it is walked, so the
\* key after a deleted key is skipped
RECURSIVE delete_while_walking(_, _)
delete_while_walking(d, i) ==
    IF i > Len(d) THEN d
    ELSE IF Cardinality(SetOf(d[i].v)) = 2
         THEN delete_while_walking(SubSeq(d, 1, i - 1) \o SubSeq(d, i + 1, Len(d)), i + 1)
         ELSE delete_while_walking(d, i + 1)

filter_prot_dict_in_place(d) == delete_while_walking(d, 1)

remove_list(d) == {d[i].k : i \in {j \in 1..Len(d) : Cardinality(SetOf(d[j].v)) = 2}}

filter_prot_dict(d) ==
    LET keep(e) == e.k \notin remove_list(d)
    IN  SelectSeq(d, keep)

(***************************************************************************)
(* membership_test                                                         *)
(***************************************************************************)
\* the six comparisons, in the order of the code: Program a vs Program b
PairA == <<1, 1, 1, 2, 2, 3>>
PairB == <<2, 3, 4, 3, 4, 4>>

comparison_name(pl, n) == pl[PairA[n]] \o "_vs_" \o pl[PairB[n]]

\* comparison_dict[comparison_1_name] = [] ... comparison_dict[comparison_6_name] = []
RECURSIVE init_comparison_dict(_, _)
init_comparison_dict(pl, n) ==
    IF n = 0 THEN <<>>
    ELSE Put(init_comparison_dict(pl, n - 1), comparison_name(pl, n), <<>>)

comparable(rec, n) == rec[PairA[n]] # SENTINEL /\ rec[PairB[n]] # SENTINEL

\* both cluster ids are keys of their program's dictionary (no KeyError)
resolvable(dicts, rec, n) ==
    /\ HasKey(dicts[PairA[n]], rec[PairA[n]])
    /\ HasKey(dicts[PairB[n]], rec[PairB[n]])

\* the fourth and the fifth comparison hand the lists to SequenceMatcher in
\* the opposite order (Program b's list first)
pair_ratio(dicts, rec, n) ==
    LET a_compare == Get(dicts[PairA[n]], rec[PairA[n]])
        b_compare == Get(dicts[PairB[n]], rec[PairB[n]])
    IN  IF n \in {4, 5} THEN ratio(b_compare, a_compare)
        ELSE ratio(a_compare, b_compare)

\* Faulty variant: a ratio replaces the list of its comparison instead of being
\* appended to it
RECURSIVE compare_key_keeps_last(_, _, _, _, _)
compare_key_keeps_last(st, dicts, pl, rec, n) ==
    IF n > 6 THEN st
    ELSE IF ~comparable(rec, n) THEN compare_key_keeps_last(st, dicts, pl, rec, n + 1)
    ELSE IF ~resolvable(dicts, rec, n) THEN [st EXCEPT !.ok = FALSE]
    ELSE LET r == pair_ratio(dicts, rec, n)
             name == comparison_name(pl, n)
         IN  compare_key_keeps_last([cd |-> Put(st.cd, name, <<r>>),
                                     scores |-> [st.scores EXCEPT ![n] = r],
                                     ok |-> TRUE],
                                    dicts, pl, rec, n + 1)

\* the body of the loop for one key: the comparisons n..6 in turn, stopping at
\* the first KeyError
RECURSIVE compare_key(_, _, _, _, _)
compare_key(st, dicts, pl, rec, n) ==
    IF n > 6 THEN st
    ELSE IF ~comparable(rec, n) THEN compare_key(st, dicts, pl, rec, n + 1)
    ELSE IF ~resolvable(dicts, rec, n) THEN [st EXCEPT !.ok = FALSE]
    ELSE LET r == pair_ratio(dicts, rec, n)
             name == comparison_name(pl, n)
         IN  compare_key([cd |-> Put(st.cd, name, Append(Get(st.cd, name), r)),
                          scores |-> [st.scores EXCEPT ![n] = r],
                          ok |-> TRUE],
                         dicts, pl, rec, n + 1)

\* membership_test as a whole: the loop over the keys of filt_prot_dict from key
\* i on, stopping at the first KeyError
RECURSIVE compare_from(_, _, _, _, _)
compare_from(st, filt, dicts, pl, i) ==
    IF i > Len(filt) \/ ~st.ok THEN st
    ELSE compare_from(compare_key(st, dicts, pl, filt[i].v, 1), filt, dicts, pl, i + 1)

membership_test(filt, dicts, pl) ==
    compare_from([cd |-> init_comparison_dict(pl, 6),
                  scores |-> <<<<>>, <<>>, <<>>, <<>>, <<>>, <<>>>>,
                  ok |-> TRUE],
                 filt, dicts, pl, 1)

(***************************************************************************)
(* avg_membership_scores                                                   *)
(***************************************************************************)
RECURSIVE FracSum(_)
FracSum(l) == IF l = <<>> THEN <<0, 1>> ELSE FracAdd(Head(l), FracSum(Tail(l)))

\* Faulty variant: the scores are summed and the sum is not divided by their number
mean_as_sum(l) == FracSum(l)

\* statistics.mean of a non-empty list
mean(l) == LET s == FracSum(l) IN Frac(s[1], s[2] * Len(l))

\* statistics.mean raises StatisticsError on an empty list
mean_fails(cd) == \E i \in 1..Len(cd) : cd[i].v = <<>>

avg_membership_scores(cd) == [i \in 1..Len(cd) |-> [k |-> cd[i].k, v |-> mean(cd[i].v)]]

(***************************************************************************)
(* threshold_test                                                          *)
(***************************************************************************)
membership_decimal(percent) == Frac(percent, 100)

\* Faulty variant: a pair passes only when its average is above the threshold (> for >=)
threshold_test_strict(og, percent) ==
    LET passes(e) == ~FracGeq(membership_decimal(percent), e.v)
    IN  SelectSeq(og, passes)

\* Faulty variant: the comparison is the wrong way round (<= for >=)
threshold_test_reversed(og, percent) ==
    LET passes(e) == FracGeq(membership_decimal(percent), e.v)
    IN  SelectSeq(og, passes)

threshold_test(og, percent) ==
    LET passes(e) == FracGeq(e.v, membership_decimal(percent))
    IN  SelectSeq(og, passes)

(***************************************************************************)
(* The final output file                                                   *)
(***************************************************************************)
\* Faulty variant: the header is written also when no pair met the threshold
report_lines_header_always(td, percent) ==
    <<[line |-> "header", percent |-> percent, key |-> "", value |-> <<>>]>>
    \o [i \in 1..Len(td) |->
           [line |-> "pair", percent |-> percent, key |-> td[i].k, value |-> td[i].v]]

\* the lines of the final output file; a "pair" line names the comparison by its key
\* (the code prints the key with its underscores turned into spaces)
report_lines(td, percent) ==
    IF td = <<>>
    THEN <<[line |-> "too_high", percent |-> percent, key |-> "", value |-> <<>>]>>
    ELSE <<[line |-> "header", percent |-> percent, key |-> "", value |-> <<>>]>>
         \o [i \in 1..Len(td) |->
                [line |-> "pair", percent |-> percent, key |-> td[i].k, value |-> td[i].v]]

\* Faulty variant: the pairs are loaded in the opposite order
json_load_reversed(text) == [i \in 1..Len(text) |-> text[Len(text) + 1 - i]]

\* json.load of the text that json.dump wrote for a dictionary: the pairs in the
\* order of the text, a key that occurs again keeping its place and taking the
\* later value
RECURSIVE json_load(_)
json_load(text) ==
    IF text = <<>> THEN <<>>
    ELSE Put(json_load(SubSeq(text, 1, Len(text) - 1)), text[Len(text)].k, text[Len(text)].v)

NotWritten == [w |-> FALSE, c |-> <<>>]

Written(content) == [w |-> TRUE, c |-> content]

NoFiles == [prot_dict |-> NotWritten, filt_prot_dict |-> NotWritten,
            compare_OG_dict |-> NotWritten, og_score_dict |-> NotWritten,
            membership_results |-> NotWritten]

(***************************************************************************)
(* Inputs of a run resumed from a checkpoint                               *)
(***************************************************************************)
NoClusterFiles == <<<<>>, <<>>, <<>>, <<>>>>

\* -c 2: four cluster files and a membership index as create_prot_dict writes
\* it (every protein of the index is clustered by at least one program)
Resume2Inputs ==
    UNION {
        {<<cf, pd>> : cf \in ClusterFileInputs(MaxResume - c),
                      pd \in ProtDictsOfCost(c, 1)}
        : c \in 0..MaxResume}

\* -c 3: four cluster files and an index as filter_prot_dict writes it
Resume3Inputs == {<<d[1], filter_prot_dict(d[2])>> : d \in Resume2Inputs}

ScoreInputs == {<<0, 1>>, <<1, 2>>, <<1, 1>>}

ScoreListInputs == {<<>>, <<<<1, 1>>>>, <<<<0, 1>>, <<1, 1>>>>}

\* -c 4: a score list for every comparison name
CompareDictInputs(pl) ==
    LET base == init_comparison_dict(pl, 6)
    IN  {[i \in 1..Len(base) |-> [k |-> base[i].k, v |-> f[i]]] :
            f \in [1..Len(base) -> ScoreListInputs]}

\* -c 5: an average score for every comparison name
ScoreDictInputs(pl) ==
    LET base == init_comparison_dict(pl, 6)
    IN  {[i \in 1..Len(base) |-> [k |-> base[i].k, v |-> f[i]]] :
            f \in [1..Len(base) -> ScoreInputs]}

DataInputs(a, pl) ==
    IF a.run_all THEN {<<cf, <<>>>> : cf \in ClusterFileInputs(MaxMembers)}
    ELSE IF a.checkpoint_num = 2 THEN Resume2Inputs
    ELSE IF a.checkpoint_num = 3 THEN Resume3Inputs
    ELSE IF a.checkpoint_num = 4 THEN {<<<<>>, cd>> : cd \in CompareDictInputs(pl)}
    ELSE {<<<<>>, og>> : og \in ScoreDictInputs(pl)}

OneCluster == <<[k |-> "OG1", v |-> <<"p1">>]>>

\* command lines outside the usage notes, as <<args, cluster files, -j file>>
EdgeInputs(pl) ==
    LET a_run == CHOOSE g \in RunGroup : g.run_all
        resumed == RunGroup \ {a_run}
        d_needed(g) == IF g.checkpoint_num \in {2, 3} THEN 4 ELSE 0
        four(g) == IF g.checkpoint_num \in {2, 3} THEN NoClusterFiles ELSE <<>>
    IN  \* -d absent
        {<<CommandLine(g, 0, ~g.run_all, ~g.run_all), <<>>, <<>>>> :
            g \in {h \in RunGroup : h.run_all \/ h.checkpoint_num \in {2, 3}}}
        \* -c without -j, -c without -i
        \cup {<<CommandLine(g, d_needed(g), FALSE, TRUE), four(g), <<>>>> : g \in resumed}
        \cup {<<CommandLine(g, d_needed(g), TRUE, FALSE), four(g), <<>>>> : g \in resumed}
        \* -a with three -d paths, -a with five
        \cup {<<CommandLine(a_run, 3, FALSE, FALSE), <<OneCluster, OneCluster, OneCluster>>, <<>>>>}
        \cup {<<CommandLine(a_run, 5, FALSE, FALSE), cf \o <<f5>>, <<>>>> :
                 cf \in ClusterFileInputs(MaxResume), f5 \in ClusterFilesOfSize(1)}
        \* -c 4 and -c 5 with four -d paths
        \cup {<<CommandLine(g, 4, TRUE, TRUE), <<OneCluster, OneCluster, <<>>, <<>>>>, j>> :
                 g \in {h \in resumed : h.checkpoint_num = 4}, j \in CompareDictInputs(pl)}
        \cup {<<CommandLine(g, 4, TRUE, TRUE), <<OneCluster, OneCluster, <<>>, <<>>>>, j>> :
                 g \in {h \in resumed : h.checkpoint_num = 5}, j \in ScoreDictInputs(pl)}

(***************************************************************************)
(* The script                                                              *)
(***************************************************************************)
NoScores == <<<<>>, <<>>, <<>>, <<>>, <<>>, <<>>>>

NoFresh ==
    [checkpoint_num |-> 0, pc |-> "", membership_percent |-> -1,
     filt_prot_dict |-> <<>>, comparison_dict |-> <<>>, og_score_dict |-> <<>>,
     threshold_dict |-> <<>>, membership_results |-> NotWritten]

Unset ==
    /\ prog_dicts = NoClusterFiles
    /\ prot_dict = <<>>
    /\ filt_prot_dict = <<>>
    /\ comparison_dict = <<>>
    /\ cmp_i = 0
    /\ pair_score = NoScores
    /\ og_score_dict = <<>>
    /\ threshold_dict = <<>>
    /\ files = NoFiles

\* subsample_list.py is not run
SubsampleIdle ==
    /\ argv = [input_list |-> <<>>, out_count |-> 0, required_file |-> <<>>]
    /\ file_list = <<>>
    /\ out_count = 0
    /\ out_list = <<>>
    /\ output_file = NotWritten
    /\ sub_pc = "not_run"

\* checkFASTA_dupes.py is not run
DupesIdle ==
    /\ ref_df = <<>>
    /\ fasta_files = <<>>
    /\ row_i = 0
    /\ outfile_dupes = <<>>
    /\ outfile_diffs = <<>>
    /\ dupes_pc = "not_run"

Init ==
    /\ \E pl \in ProgramNameInputs :
         /\ program_list = pl
         /\ \/ \E a \in ArgsInputs :
                  \E d \in DataInputs(a, pl) :
                     /\ args = a
                     /\ cluster_files = d[1]
                     /\ input_json = d[2]
                     /\ malformed = FALSE
            \/ \E e \in EdgeInputs(pl) :
                  /\ args = e[1]
                  /\ cluster_files = e[2]
                  /\ input_json = e[3]
                  /\ malformed = FALSE
            \/ \E a \in ArgsInputs :
                  /\ args = a
                  /\ cluster_files = [n \in 1..a.input_files |-> <<>>]
                  /\ input_json = <<>>
                  /\ malformed = TRUE
    /\ membership_percent = -1
    /\ pc = "start"
    /\ Unset
    /\ fresh = NoFresh
    /\ SubsampleIdle
    /\ DupesIdle

inputs == <<args, membership_percent, program_list, cluster_files, input_json, malformed>>

\* the sanity checks fail: parser.error prints the usage and exits
parser_error ==
    /\ pc = "start"
    /\ arg_error(args)
    /\ pc' = "usage_error"
    /\ UNCHANGED <<inputs, fresh, supplement, prog_dicts, prot_dict, filt_prot_dict, comparison_dict, cmp_i,
                   pair_score, og_score_dict, threshold_dict, files>>

\* db_list[0] .. db_list[3] with args.input_files absent (TypeError) or shorter
\* than four (IndexError), or json.load of a file that is not JSON
load_fails(need_d) == (need_d /\ args.input_files < 4) \/ malformed

\* progN_dict = json.load(...) for the first four -d paths
load_prog_dicts == [n \in 1..4 |-> json_load(cluster_files[n])]

\* Part 3A, data_2_pandas: the four cluster files are loaded
Checkpoint1 ==
    /\ pc = "start"
    /\ args.run_all
    /\ ~arg_error(args)
    /\ IF load_fails(TRUE)
       THEN pc' = "aborted" /\ UNCHANGED prog_dicts
       ELSE prog_dicts' = load_prog_dicts /\ pc' = "checkpoint1"
    /\ UNCHANGED <<inputs, fresh, supplement, prot_dict, filt_prot_dict, comparison_dict, cmp_i, pair_score,
                   og_score_dict, threshold_dict, files>>

\* create_prot_dict, which ends by writing prot_dict_<id>.json
Checkpoint2 ==
    /\ pc = "checkpoint1"
    /\ \E order \in Orders(prot_queries(prog_dicts)) :
          prot_dict' = create_prot_dict(prog_dicts, order)
    /\ files' = [files EXCEPT !.prot_dict = Written(prot_dict')]
    /\ pc' = "checkpoint2"
    /\ UNCHANGED <<inputs, fresh, supplement, prog_dicts, filt_prot_dict, comparison_dict, cmp_i, pair_score,
                   og_score_dict, threshold_dict>>

\* Faulty variant: the filter deletes the records from prot_dict itself and returns it
Checkpoint3_in_place ==
    /\ pc = "checkpoint2"
    /\ filt_prot_dict' = filter_prot_dict(prot_dict)
    /\ prot_dict' = filt_prot_dict'
    /\ files' = [files EXCEPT !.filt_prot_dict = Written(filt_prot_dict')]
    /\ pc' = "checkpoint3"
    /\ UNCHANGED <<inputs, fresh, supplement, prog_dicts, comparison_dict, cmp_i, pair_score,
                   og_score_dict, threshold_dict>>

\* filter_prot_dict, which ends by writing filt_prot_dict_<id>.json
Checkpoint3 ==
    /\ pc = "checkpoint2"
    /\ filt_prot_dict' = filter_prot_dict(prot_dict)
    /\ files' = [files EXCEPT !.filt_prot_dict = Written(filt_prot_dict')]
    /\ pc' = "checkpoint3"
    /\ UNCHANGED <<inputs, fresh, supplement, prog_dicts, prot_dict, comparison_dict, cmp_i, pair_score,
                   og_score_dict, threshold_dict>>

\* membership_test up to its loop: the six names and their empty lists
CompareBegin ==
    /\ pc = "checkpoint3"
    /\ comparison_dict' = init_comparison_dict(program_list, 6)
    /\ cmp_i' = 0
    /\ pc' = "comparing"
    /\ UNCHANGED <<inputs, fresh, supplement, prog_dicts, prot_dict, filt_prot_dict, pair_score,
                   og_score_dict, threshold_dict, files>>

\* Faulty variant: on a KeyError the scores collected so far are dumped to
\* compare_OG_dict_<id>.json before the run stops
CompareKey_dumps_on_error ==
    /\ pc = "comparing"
    /\ cmp_i < Len(filt_prot_dict)
    /\ LET st == compare_key([cd |-> comparison_dict, scores |-> pair_score, ok |-> TRUE],
                             prog_dicts, program_list, filt_prot_dict[cmp_i + 1].v, 1)
       IN  /\ comparison_dict' = st.cd
           /\ pair_score' = st.scores
           /\ pc' = IF st.ok THEN "comparing" ELSE "aborted"
           /\ files' = IF st.ok THEN files
                       ELSE [files EXCEPT !.compare_OG_dict = Written(st.cd)]
    /\ cmp_i' = cmp_i + 1
    /\ UNCHANGED <<inputs, fresh, supplement, prog_dicts, prot_dict, filt_prot_dict, og_score_dict,
                   threshold_dict>>

\* one pass of the loop of membership_test: the next key of filt_prot_dict
CompareKey ==
    /\ pc = "comparing"
    /\ cmp_i < Len(filt_prot_dict)
    /\ LET st == compare_key([cd |-> comparison_dict, scores |-> pair_score, ok |-> TRUE],
                             prog_dicts, program_list, filt_prot_dict[cmp_i + 1].v, 1)
       IN  /\ comparison_dict' = st.cd
           /\ pair_score' = st.scores
           /\ pc' = IF st.ok THEN "comparing" ELSE "aborted"
    /\ cmp_i' = cmp_i + 1
    /\ UNCHANGED <<inputs, fresh, supplement, prog_dicts, prot_dict, filt_prot_dict, og_score_dict,
                   threshold_dict, files>>

\* the end of membership_test: compare_OG_dict_<id>.json is written
Checkpoint4 ==
    /\ pc = "comparing"
    /\ cmp_i = Len(filt_prot_dict)
    /\ files' = [files EXCEPT !.compare_OG_dict = Written(comparison_dict)]
    /\ pc' = "checkpoint4"
    /\ UNCHANGED <<inputs, fresh, supplement, prog_dicts, prot_dict, filt_prot_dict, comparison_dict, cmp_i,
                   pair_score, og_score_dict, threshold_dict>>

\* Faulty variant: a comparison without scores is left out instead of failing
Checkpoint5_skips_empty ==
    /\ pc = "checkpoint4"
    /\ LET scored(e) == e.v # <<>>
       IN  og_score_dict' = avg_membership_scores(SelectSeq(comparison_dict, scored))
    /\ files' = [files EXCEPT !.og_score_dict = Written(og_score_dict')]
    /\ pc' = "checkpoint5"
    /\ UNCHANGED <<inputs, fresh, supplement, prog_dicts, prot_dict, filt_prot_dict, comparison_dict, cmp_i,
                   pair_score, threshold_dict>>

\* avg_membership_scores, which ends by writing og_score_dict_<id>.json
Checkpoint5 ==
    /\ pc = "checkpoint4"
    /\ IF mean_fails(comparison_dict)
       THEN /\ pc' = "aborted"
            /\ UNCHANGED <<og_score_dict, files>>
       ELSE /\ og_score_dict' = avg_membership_scores(comparison_dict)
            /\ files' = [files EXCEPT !.og_score_dict = Written(og_score_dict')]
            /\ pc' = "checkpoint5"
    /\ UNCHANGED <<inputs, fresh, supplement, prog_dicts, prot_dict, filt_prot_dict, comparison_dict, cmp_i,
                   pair_score, threshold_dict>>

\* threshold_test, the first reader of the -p value of the command line
Checkpoint6 ==
    /\ pc = "checkpoint5"
    /\ \E percent \in Percents :
          /\ membership_percent' = percent
          /\ threshold_dict' = threshold_test(og_score_dict, percent)
    /\ pc' = "checkpoint6"
    /\ UNCHANGED <<args, program_list, cluster_files, input_json, malformed, fresh,
                   supplement, prog_dicts, prot_dict, filt_prot_dict, comparison_dict, cmp_i,
                   pair_score, og_score_dict, files>>

\* Faulty variant: the final output file is written before threshold_test has run
WriteResults_before_threshold ==
    /\ pc = "checkpoint5"
    /\ files' = [files EXCEPT !.membership_results =
                    Written(report_lines(threshold_dict, membership_percent))]
    /\ pc' = "done"
    /\ UNCHANGED <<inputs, fresh, supplement, prog_dicts, prot_dict, filt_prot_dict, comparison_dict, cmp_i,
                   pair_score, og_score_dict, threshold_dict>>

\* Part 4: the final output file
WriteResults ==
    /\ pc = "checkpoint6"
    /\ files' = [files EXCEPT !.membership_results =
                    Written(report_lines(threshold_dict, membership_percent))]
    /\ pc' = "done"
    /\ UNCHANGED <<inputs, fresh, supplement, prog_dicts, prot_dict, filt_prot_dict, comparison_dict, cmp_i,
                   pair_score, og_score_dict, threshold_dict>>

\* Part 3B, -c 2: prot_dict and the four cluster dictionaries are loaded
Resume2 ==
    /\ pc = "start"
    /\ args.checkpoint_num = 2
    /\ ~arg_error(args)
    /\ IF load_fails(TRUE)
       THEN pc' = "aborted" /\ UNCHANGED <<prot_dict, prog_dicts>>
       ELSE /\ prot_dict' = json_load(input_json)
            /\ prog_dicts' = load_prog_dicts
            /\ pc' = "checkpoint2"
    /\ UNCHANGED <<inputs, fresh, supplement, filt_prot_dict, comparison_dict, cmp_i, pair_score,
                   og_score_dict, threshold_dict, files>>

\* -c 3: filt_prot_dict and the four cluster dictionaries are loaded
Resume3 ==
    /\ pc = "start"
    /\ args.checkpoint_num = 3
    /\ ~arg_error(args)
    /\ IF load_fails(TRUE)
       THEN pc' = "aborted" /\ UNCHANGED <<filt_prot_dict, prog_dicts>>
       ELSE /\ filt_prot_dict' = json_load(input_json)
            /\ prog_dicts' = load_prog_dicts
            /\ pc' = "checkpoint3"
    /\ UNCHANGED <<inputs, fresh, supplement, prot_dict, comparison_dict, cmp_i, pair_score,
                   og_score_dict, threshold_dict, files>>

\* Faulty variant: -c 4 loads the cluster dictionaries too when -d is given
Resume4_reads_databases ==
    /\ pc = "start"
    /\ args.checkpoint_num = 4
    /\ ~arg_error(args)
    /\ IF load_fails(FALSE)
       THEN pc' = "aborted" /\ UNCHANGED <<comparison_dict, prog_dicts>>
       ELSE /\ comparison_dict' = json_load(input_json)
            /\ prog_dicts' = IF args.input_files >= 4 THEN load_prog_dicts ELSE prog_dicts
            /\ pc' = "checkpoint4"
    /\ UNCHANGED <<inputs, fresh, supplement, prot_dict, filt_prot_dict, cmp_i, pair_score,
                   og_score_dict, threshold_dict, files>>

\* -c 4: comparison_dict is loaded
Resume4 ==
    /\ pc = "start"
    /\ args.checkpoint_num = 4
    /\ ~arg_error(args)
    /\ IF load_fails(FALSE)
       THEN pc' = "aborted" /\ UNCHANGED comparison_dict
       ELSE comparison_dict' = json_load(input_json) /\ pc' = "checkpoint4"
    /\ UNCHANGED <<inputs, fresh, supplement, prog_dicts, prot_dict, filt_prot_dict, cmp_i, pair_score,
                   og_score_dict, threshold_dict, files>>

\* -c 5: og_score_dict is loaded
Resume5 ==
    /\ pc = "start"
    /\ args.checkpoint_num = 5
    /\ ~arg_error(args)
    /\ IF load_fails(FALSE)
       THEN pc' = "aborted" /\ UNCHANGED og_score_dict
       ELSE og_score_dict' = json_load(input_json) /\ pc' = "checkpoint5"
    /\ UNCHANGED <<inputs, fresh, supplement, prog_dicts, prot_dict, filt_prot_dict, comparison_dict, cmp_i,
                   pair_score, threshold_dict, files>>

Next ==
    \/ parser_error
    \/ Checkpoint1
    \/ Checkpoint2
    \/ Checkpoint3
    \/ CompareBegin
    \/ CompareKey
    \/ Checkpoint4
    \/ Checkpoint5
    \/ Checkpoint6
    \/ WriteResults
    \/ Resume2
    \/ Resume3
    \/ Resume4
    \/ Resume5

Spec == Init /\ [][Next]_vars

(***************************************************************************)
(* A complete run followed by a run resumed from one of its checkpoints    *)
(***************************************************************************)
InitFresh ==
    /\ \E cf \in ClusterFileInputs(MaxMembers) :
          /\ args = CommandLine(CHOOSE g \in RunGroup : g.run_all, 4, FALSE, FALSE)
          /\ program_list = DefaultProgramList
          /\ cluster_files = cf
    /\ input_json = <<>>
    /\ malformed = FALSE
    /\ membership_percent = -1
    /\ pc = "start"
    /\ Unset
    /\ fresh = NoFresh
    /\ SubsampleIdle
    /\ DupesIdle

\* the checkpoint file that a run writes at the end of stage N
checkpoint_file(N) ==
    IF N = 2 THEN files.prot_dict
    ELSE IF N = 3 THEN files.filt_prot_dict
    ELSE IF N = 4 THEN files.compare_OG_dict
    ELSE files.og_score_dict

\* the complete run has ended; the script is started again with -c N, -i, the
\* same -d and -n, and -j naming the checkpoint file of stage N of that run
Restart ==
    /\ args.run_all
    /\ pc \in {"done", "aborted"}
    /\ \E N \in 2..5 :
          /\ checkpoint_file(N).w
          /\ args' = CommandLine([run_all |-> FALSE, checkpoint_num |-> N], 4, TRUE, TRUE)
          /\ input_json' = checkpoint_file(N).c
          /\ fresh' = [checkpoint_num |-> N, pc |-> pc,
                       membership_percent |-> membership_percent,
                       filt_prot_dict |-> filt_prot_dict,
                       comparison_dict |-> comparison_dict,
                       og_score_dict |-> og_score_dict,
                       threshold_dict |-> threshold_dict,
                       membership_results |-> files.membership_results]
    /\ membership_percent' = -1
    /\ pc' = "start"
    /\ prog_dicts' = NoClusterFiles
    /\ prot_dict' = <<>>
    /\ filt_prot_dict' = <<>>
    /\ comparison_dict' = <<>>
    /\ cmp_i' = 0
    /\ pair_score' = NoScores
    /\ og_score_dict' = <<>>
    /\ threshold_dict' = <<>>
    /\ files' = NoFiles
    /\ UNCHANGED <<program_list, cluster_files, malformed, supplement>>

NextResume ==
    \/ Checkpoint1
    \/ Checkpoint2
    \/ Checkpoint3
    \/ CompareBegin
    \/ CompareKey
    \/ Checkpoint4
    \/ Checkpoint5
    \/ Checkpoint6
    \/ WriteResults
    \/ Restart
    \/ Resume2
    \/ Resume3
    \/ Resume4
    \/ Resume5

SpecResume == InitFresh /\ [][NextResume]_vars

(***************************************************************************)
(* Complete runs on cluster files with longer member lists: three or four  *)
(* proteins, in clusters that the programs name and cut differently        *)
(***************************************************************************)
Cluster(id, members) == [k |-> id, v |-> members]

\* what each of the four programs may report on the proteins p1, p2 and p3
ThreeProteinFiles ==
    << { <<Cluster("OG1", <<"p1", "p2">>), Cluster("OG2", <<"p3">>)>>,
         <<Cluster("OG1", <<"p1", "p2", "p3">>)>> },
       { <<Cluster("OG3", <<"p1">>), Cluster("OG4", <<"p2", "p3">>)>>,
         <<Cluster("OG3", <<"p3", "p2", "p1">>)>> },
       { <<Cluster("OG5", <<"p1", "p2", "p3">>)>>,
         <<Cluster("OG5", <<"p3", "p1">>), Cluster("OG6", <<"p2">>)>> },
       { <<Cluster("OG7", <<"p2", "p1", "p3">>)>> } >>

\* four programs on the proteins p1 .. p4
FourProteinFiles ==
    << <<Cluster("OG1", <<"p1", "p2">>), Cluster("OG2", <<"p3", "p4">>)>>,
       <<Cluster("OG3", <<"p1", "p2", "p3">>)>>,
       <<Cluster("OG5", <<"p2", "p4", "p3", "p1">>)>>,
       <<Cluster("OG7", <<"p1", "p2", "p3", "p4">>)>> >>

LongerClusterFiles ==
    {cf \in [1..4 -> UNION {ThreeProteinFiles[n] : n \in 1..4}] :
        \A n \in 1..4 : cf[n] \in ThreeProteinFiles[n]}
    \cup {FourProteinFiles}

InitLists ==
    /\ args = CommandLine(CHOOSE g \in RunGroup : g.run_all, 4, FALSE, FALSE)
    /\ program_list = DefaultProgramList
    /\ cluster_files \in LongerClusterFiles
    /\ input_json = <<>>
    /\ malformed = FALSE
    /\ membership_percent = -1
    /\ pc = "start"
    /\ Unset
    /\ fresh = NoFresh
    /\ SubsampleIdle
    /\ DupesIdle

\* Part 3A and Part 4
NextRunAll ==
    \/ Checkpoint1
    \/ Checkpoint2
    \/ Checkpoint3
    \/ CompareBegin
    \/ CompareKey
    \/ Checkpoint4
    \/ Checkpoint5
    \/ Checkpoint6
    \/ WriteResults

SpecLists == InitLists /\ [][NextRunAll]_vars

(***************************************************************************)
(* PublicationSupplement/subsample_list.py                                 *)
(*                                                                         *)
(* A string is the sequence of its characters; a line of a file is written *)
(* without its line break.                                                 *)
(***************************************************************************)
MaxLines == 3          \* lines of the file input_list

\* og_membership_test.py is not run
PipelineIdle ==
    /\ args = CommandLine(CHOOSE g \in RunGroup : g.run_all, 0, FALSE, FALSE)
    /\ membership_percent = -1
    /\ program_list = DefaultProgramList
    /\ cluster_files = <<>>
    /\ input_json = <<>>
    /\ malformed = FALSE
    /\ pc = "not_run"
    /\ Unset
    /\ fresh = NoFresh

RECURSIVE lstrip(_)
lstrip(s) == IF s # <<>> /\ Head(s) = " " THEN lstrip(Tail(s)) ELSE s

RECURSIVE rstrip(_)
rstrip(s) == IF s # <<>> /\ s[Len(s)] = " " THEN rstrip(SubSeq(s, 1, Len(s) - 1)) ELSE s

\* str.strip() on the blanks of the alphabet below
strip(s) == rstrip(lstrip(s))

\* the lines a list file may hold: a name, a name with blanks around it, an empty line
ListLines == {<<"a">>, <<"b">>, <<"a", " ">>, <<" ", "b">>, <<>>}

ListsUpTo(n) == UNION {[1..m -> ListLines] : m \in 0..n}

\* int(sys.argv[4]): from nothing to one more than the list can hold
CountInputs == 0..(MaxLines + 1)

\* sys.argv[5] when len(sys.argv) == 6, as a list of no or one name
RequiredFileInputs == {<<>>, << <<"a">> >>, << <<"b">> >>}

InitSubsample ==
    /\ \E lines \in ListsUpTo(MaxLines), n \in CountInputs, r \in RequiredFileInputs :
          argv = [input_list |-> lines, out_count |-> n, required_file |-> r]
    /\ file_list = <<>>
    /\ out_count = argv.out_count
    /\ out_list = <<>>
    /\ output_file = NotWritten
    /\ sub_pc = "start"
    /\ PipelineIdle
    /\ DupesIdle

\* the loop over the lines of input_list
read_file_list(lines) == [i \in 1..Len(lines) |-> strip(lines[i])]

\* Faulty variant: only the first occurrence is taken out, as list.remove does
without_required_once(list, required_file) ==
    IF \E i \in 1..Len(list) : list[i] = required_file
    THEN LET i == CHOOSE i \in 1..Len(list) :
                     list[i] = required_file /\ \A j \in 1..(i - 1) : list[j] # required_file
         IN  SubSeq(list, 1, i - 1) \o SubSeq(list, i + 1, Len(list))
    ELSE list

\* [i for i in file_list if i != required_file]
without_required(list, required_file) == SelectSeq(list, LAMBDA i : i # required_file)

\* random.sample raises ValueError: "Sample larger than population or is negative"
sample_fails(population, k) == k > Len(population) \/ k < 0

\* the selections random.sample(population, k) can return: k distinct positions
\* of the population, in any order.  Which of them a seed yields is not modelled.
Draws(population, k) ==
    {s \in [1..k -> 1..Len(population)] : \A i, j \in 1..k : i # j => s[i] # s[j]}

ReadFileList ==
    /\ sub_pc = "start"
    /\ file_list' = read_file_list(argv.input_list)
    /\ sub_pc' = "listed"
    /\ UNCHANGED <<argv, out_count, out_list, output_file, pipeline, dupes>>

\* if 'required_file' in globals(): the list loses it, one name fewer is drawn
RemoveRequired ==
    /\ sub_pc = "listed"
    /\ argv.required_file # <<>>
    /\ file_list' = without_required(file_list, argv.required_file[1])
    /\ out_count' = out_count - 1
    /\ sub_pc' = "required_removed"
    /\ UNCHANGED <<argv, out_list, output_file, pipeline, dupes>>

\* random.seed(seed_no); out_list = random.sample(file_list, out_count)
Subsample ==
    /\ \/ sub_pc = "listed" /\ argv.required_file = <<>>
       \/ sub_pc = "required_removed"
    /\ IF sample_fails(file_list, out_count)
       THEN sub_pc' = "failed" /\ UNCHANGED out_list
       ELSE /\ \E draw \in Draws(file_list, out_count) :
                  out_list' = [j \in 1..out_count |-> file_list[draw[j]]]
            /\ sub_pc' = "sampled"
    /\ UNCHANGED <<argv, file_list, out_count, output_file, pipeline, dupes>>

\* the output file: the required file, then the names drawn
WriteOutput ==
    /\ sub_pc = "sampled"
    /\ output_file' = Written(argv.required_file \o out_list)
    /\ sub_pc' = "done"
    /\ UNCHANGED <<argv, file_list, out_count, out_list, pipeline, dupes>>

NextSubsample ==
    \/ ReadFileList
    \/ RemoveRequired
    \/ Subsample
    \/ WriteOutput

SpecSubsample == InitSubsample /\ [][NextSubsample]_vars

(***************************************************************************)
(* PublicationSupplement/checkFASTA_dupes.py                               *)
(***************************************************************************)
MaxFastaLines == 5     \* lines of a FASTA file
MaxRows == 2           \* rows of the input file

\* the sequence headers named by the input file, without the leading ">"
SeqHeaders == {<<"h">>, <<"g">>}

FastaNames == {"f.fasta"}

\* the lines a FASTA file may hold: header lines, one of them with a trailing
\* blank, and lines of residues
FastaLines == {<<">", "h">>, <<">", "h", " ">>, <<">", "g">>, <<"A">>, <<"C">>}

FastaFilesUpTo(n) == UNION {[1..m -> FastaLines] : m \in 0..n}

RowsUpTo(n) ==
    UNION {[1..m -> [seq_header : SeqHeaders, origin_file : FastaNames]] : m \in 1..n}

\* the input file is read into ref_df and both output files are opened
InitDupes ==
    /\ ref_df \in RowsUpTo(MaxRows)
    /\ fasta_files \in [FastaNames -> FastaFilesUpTo(MaxFastaLines)]
    /\ row_i = 0
    /\ outfile_dupes = <<>>
    /\ outfile_diffs = <<>>
    /\ dupes_pc = "rows"
    /\ PipelineIdle
    /\ SubsampleIdle

\* line.startswith(">")
startswith_gt(line) == line # <<>> /\ Head(line) = ">"

\* the loop over the lines of source_file: after each line equal to dupe_header the
\* next line is taken from the file as its sequence; next() at the end of the file
\* raises StopIteration (ok = FALSE)
RECURSIVE search_file(_, _, _)
search_file(lines, dupe_header, seq_list) ==
    IF lines = <<>> THEN [seq_list |-> seq_list, ok |-> TRUE]
    ELSE IF startswith_gt(Head(lines)) /\ strip(Head(lines)) = dupe_header
         THEN IF Len(lines) = 1
              THEN [seq_list |-> seq_list, ok |-> FALSE]
              ELSE search_file(SubSeq(lines, 3, Len(lines)), dupe_header,
                               Append(seq_list, strip(lines[2])))
         ELSE search_file(Tail(lines), dupe_header, seq_list)

\* list(set(seq_list))
uniq_dupes_list(seq_list) == {seq_list[i] : i \in 1..Len(seq_list)}

\* one pass of the loop over the rows of ref_df
CheckRow ==
    /\ dupes_pc = "rows"
    /\ row_i < Len(ref_df)
    /\ LET row == ref_df[row_i + 1]
           dupe_header == <<">">> \o row.seq_header
           found == search_file(fasta_files[row.origin_file], dupe_header, <<>>)
           uniq == Cardinality(uniq_dupes_list(found.seq_list))
       IN  IF ~found.ok
           THEN /\ dupes_pc' = "failed"
                /\ UNCHANGED <<outfile_dupes, outfile_diffs>>
           ELSE /\ dupes_pc' = "rows"
                /\ outfile_dupes' = IF uniq = 1 THEN Append(outfile_dupes, Tail(dupe_header))
                                    ELSE outfile_dupes
                /\ outfile_diffs' = IF uniq > 1 THEN Append(outfile_diffs, Tail(dupe_header))
                                    ELSE outfile_diffs
    /\ row_i' = row_i + 1
    /\ UNCHANGED <<ref_df, fasta_files, pipeline, subsample>>

\* the end of the with block: the files are closed
CloseFiles ==
    /\ dupes_pc = "rows"
    /\ row_i = Len(ref_df)
    /\ dupes_pc' = "done"
    /\ UNCHANGED <<ref_df, fasta_files, row_i, outfile_dupes, outfile_diffs, pipeline, subsample>>

NextDupes ==
    \/ CheckRow
    \/ CloseFiles

SpecDupes == InitDupes /\ [][NextDupes]_vars

(***************************************************************************)
(* Properties                                                              *)
(***************************************************************************)
\* filter_prot_dict has run in this run (-a or -c 2) and returned
FilterRan == files.filt_prot_dict.w

Dropped(i) == ~HasKey(filt_prot_dict, prot_dict[i].k)

\* C1: the Index Filter drops a record if and only if fewer than two of its
\* four slots are non-sentinel, whatever the cluster id strings are.
\* (The code drops a record when the set of its slots has two elements.)
\* Stated for the runs that build the index themselves (-a).
C1_DropsIffFewerThanTwo ==
    (args.run_all /\ FilterRan) =>
        \A i \in 1..Len(prot_dict) : Dropped(i) <=> NonSentinel(prot_dict[i].v) < 2

\* C2: every record of the filtered index that the Index Filter returns and
\* writes to filt_prot_dict_<id>.json has at least two non-sentinel slots.
C2_FilteredHasTwoClustered ==
    FilterRan =>
        /\ \A i \in 1..Len(filt_prot_dict) : NonSentinel(filt_prot_dict[i].v) >= 2
        /\ files.filt_prot_dict.c = filt_prot_dict

\* C2 witness: the filter has dropped a record and kept another
C2_Witness ==
    /\ FilterRan
    /\ filt_prot_dict # <<>>
    /\ Len(filt_prot_dict) < Len(prot_dict)

\* C3: the Index Filter is idempotent: filtering the filtered index it
\* returned removes no record.
C3_FilterIdempotent ==
    FilterRan => filter_prot_dict(filt_prot_dict) = filt_prot_dict

\* C3 witness: the first pass removed two records, one after the other
C3_Witness ==
    /\ FilterRan
    /\ Len(prot_dict) = 2
    /\ filt_prot_dict = <<>>

\* the loop of membership_test has run in this run (-a, -c 2 or -c 3) without a KeyError
ComparatorRan ==
    /\ args.checkpoint_num \in {0, 2, 3}
    /\ pc \in {"comparing", "checkpoint4", "checkpoint5", "checkpoint6", "done"}

ScoreList(n) == Get(comparison_dict, comparison_name(program_list, n))

\* the keys of filt_prot_dict compared so far for which comparison n applies
Shared(n) == {i \in 1..cmp_i : comparable(filt_prot_dict[i].v, n)}

\* C4: for each of the six program pairs, one ratio is appended to the pair's
\* score list for every record (compared so far) whose two slots are both
\* non-sentinel and none otherwise, so that at the end of the pass the length of
\* the pair's list is the number of filtered records shared by the two programs.
\* (With program names that repeat, several pairs share one list.)
C4_OneRatioPerSharedRecord ==
    ComparatorRan => \A n \in 1..6 : Len(ScoreList(n)) = Cardinality(Shared(n))

MemberListA(rec, n) == Get(prog_dicts[PairA[n]], rec[PairA[n]])

MemberListB(rec, n) == Get(prog_dicts[PairB[n]], rec[PairB[n]])

\* comparison n of the key compared last had two identical member lists
IdenticalLists(n) ==
    LET rec == filt_prot_dict[cmp_i].v
    IN  /\ comparable(rec, n)
        /\ resolvable(prog_dicts, rec, n)
        /\ MemberListA(rec, n) = MemberListB(rec, n)

\* C5: when the two member lists resolved for a protein id in two programs are
\* the same ordered sequence, the ratio computed and appended for the pair is
\* exactly 1.0, also when the two clusters have different cluster ids.
C5_IdenticalListsScoreOne ==
    (ComparatorRan /\ cmp_i >= 1) =>
        \A n \in 1..6 :
            IdenticalLists(n) =>
                /\ pair_score[n] = <<1, 1>>
                /\ ScoreList(n)[Len(ScoreList(n))] \in {pair_score[m] : m \in n..6}

\* C5 witness: two clusters with different ids and the same member list were compared
C5_Witness ==
    /\ ComparatorRan
    /\ cmp_i >= 1
    /\ \E n \in 1..6 :
          /\ IdenticalLists(n)
          /\ filt_prot_dict[cmp_i].v[PairA[n]] # filt_prot_dict[cmp_i].v[PairB[n]]
          /\ pair_score[n] = <<1, 1>>

\* the four programs hold one same cluster (same id, same member list) and
\* every protein outside it is a member of clusters of one program only
SharedCluster(c) ==
    /\ \A n \in 1..4 : HasKey(cluster_files[n], c)
    /\ \A n \in 2..4 : Get(cluster_files[n], c) = Get(cluster_files[1], c)
    /\ \A q \in prot_queries(cluster_files) \ SetOf(Get(cluster_files[1], c)) :
          Cardinality({n \in 1..4 : q \in Queries(DataFrame(cluster_files[n]))}) = 1

Ones(k) == [i \in 1..k |-> <<1, 1>>]

\* C6: in a --run_all run on four programs that hold one same cluster, every other
\* protein being in one program only: the filter drops exactly the single-program
\* records, each of the six pairs gets one 1.0 per cluster member, every mean is
\* 1.0 and the six pairs are all reported for a threshold of at most 100.
C6_SharedClusterEndToEnd ==
    \A c \in ClusterIds :
        (args.run_all /\ args.input_files = 4 /\ SharedCluster(c)) =>
            LET members == SetOf(Get(cluster_files[1], c))
            IN  /\ pc # "aborted"
                /\ FilterRan =>
                      \A i \in 1..Len(prot_dict) :
                          Dropped(i) <=> prot_dict[i].k \notin members
                /\ pc \in {"checkpoint4", "checkpoint5", "checkpoint6", "done"} =>
                      /\ Len(comparison_dict) = 6
                      /\ \A n \in 1..6 : ScoreList(n) = Ones(Cardinality(members))
                /\ pc \in {"checkpoint5", "checkpoint6", "done"} =>
                      /\ Len(og_score_dict) = 6
                      /\ \A i \in 1..Len(og_score_dict) : og_score_dict[i].v = <<1, 1>>
                /\ (pc \in {"checkpoint6", "done"} /\ membership_percent <= 100) =>
                      threshold_dict = og_score_dict
                /\ (pc = "done" /\ membership_percent <= 100) =>
                      Len(files.membership_results.c) = 7

InUnitInterval(x) == x[2] > 0 /\ 0 <= x[1] /\ x[1] <= x[2]

\* C7: in a run that computes its scores (-a, -c 2, -c 3) every ratio of every
\* score list and every average score lies in [0, 1].
C7_ScoresInUnitInterval ==
    args.checkpoint_num \in {0, 2, 3} =>
        /\ \A i \in 1..Len(comparison_dict) :
              \A j \in 1..Len(comparison_dict[i].v) : InUnitInterval(comparison_dict[i].v[j])
        /\ \A i \in 1..Len(og_score_dict) : InUnitInterval(og_score_dict[i].v)

\* C7 witness: averages were computed from score lists, one of them of several ratios
C7_Witness ==
    /\ args.run_all
    /\ pc = "checkpoint5"
    /\ og_score_dict # <<>>
    /\ \E i \in 1..Len(comparison_dict) : Len(comparison_dict[i].v) >= 2

ThresholdRan == pc \in {"checkpoint6", "done"}

\* the average x is at least membership_percent / 100
MeetsThreshold(x) == x[1] * 100 >= membership_percent * x[2]

\* C8: threshold_test returns exactly the entries of og_score_dict whose average
\* is greater than or equal to membership_percent / 100, each with its average.
C8_ThresholdKeepsExactlyPassing ==
    ThresholdRan =>
        /\ \A i \in 1..Len(og_score_dict) :
              /\ HasKey(threshold_dict, og_score_dict[i].k) <=> MeetsThreshold(og_score_dict[i].v)
              /\ HasKey(threshold_dict, og_score_dict[i].k) =>
                    Get(threshold_dict, og_score_dict[i].k) = og_score_dict[i].v
        /\ Keys(threshold_dict) \subseteq Keys(og_score_dict)

\* C8 witness: an average equal to the threshold was kept, a smaller one dropped
C8_Witness ==
    /\ ThresholdRan
    /\ membership_percent = 50
    /\ \E i \in 1..Len(og_score_dict) :
          og_score_dict[i].v = <<1, 2>> /\ HasKey(threshold_dict, og_score_dict[i].k)
    /\ \E i \in 1..Len(og_score_dict) :
          og_score_dict[i].v = <<0, 1>> /\ ~HasKey(threshold_dict, og_score_dict[i].k)

\* C9: with a threshold of 0 every pair of og_score_dict is retained, with a
\* threshold above 100 none is.
C9_ThresholdZeroAndAboveHundred ==
    ThresholdRan =>
        /\ membership_percent = 0 => threshold_dict = og_score_dict
        /\ membership_percent > 100 => threshold_dict = <<>>

\* C9 witness: a pair with an average of 1.0 was not retained for a threshold above 100
C9_Witness ==
    /\ ThresholdRan
    /\ membership_percent > 100
    /\ \E i \in 1..Len(og_score_dict) : og_score_dict[i].v = <<1, 1>>
    /\ threshold_dict = <<>>

\* one of the six pairs has no score
SomePairUnscored == \E n \in 1..6 : ScoreList(n) = <<>>

\* C10: when a pair reaches avg_membership_scores with an empty score list the
\* run aborts there, also when other pairs have scores: og_score_dict is not
\* produced, og_score_dict_<id>.json and the final output file are not written.
C10_EmptyScoreListAborts ==
    /\ [][(pc = "checkpoint4" /\ SomePairUnscored) =>
            (pc' = "aborted" /\ og_score_dict' = <<>> /\ files' = files)]_vars
    /\ [](pc = "aborted" =>
            (~files.og_score_dict.w /\ ~files.membership_results.w /\ og_score_dict = <<>>))

\* C10 witness: the run aborted in avg_membership_scores with some pairs scored
C10_Witness ==
    /\ pc = "aborted"
    /\ cmp_i = Len(filt_prot_dict)
    /\ files.compare_OG_dict.w
    /\ SomePairUnscored
    /\ \E n \in 1..6 : ScoreList(n) # <<>>

report == files.membership_results.c

ResumedRunEnded == fresh.checkpoint_num # 0 /\ pc \in {"done", "aborted"}

\* C12: for N in 2..5, a run resumed with -c N from the checkpoint that a complete
\* run wrote after stage N, with the same cluster files and names, ends as the
\* complete run ended, with the same filtered index (N <= 3), score lists
\* (N <= 4) and averages, and for the same threshold the same ThresholdResult
\* and the same report.
C12_ResumeEqualsFreshRun ==
    ResumedRunEnded =>
        /\ pc = fresh.pc
        /\ fresh.checkpoint_num <= 3 => filt_prot_dict = fresh.filt_prot_dict
        /\ fresh.checkpoint_num <= 4 => comparison_dict = fresh.comparison_dict
        /\ og_score_dict = fresh.og_score_dict
        /\ membership_percent = fresh.membership_percent =>
              /\ threshold_dict = fresh.threshold_dict
              /\ files.membership_results = fresh.membership_results

\* C12 witness: a run resumed from checkpoint 2 has reported a pair, for the threshold
\* of the complete run
C12_Witness ==
    /\ ResumedRunEnded
    /\ fresh.checkpoint_num = 2
    /\ pc = "done"
    /\ membership_percent = fresh.membership_percent
    /\ threshold_dict # <<>>
    /\ Len(filt_prot_dict) >= 1

\* C13: a command line with -c 2 or -c 3 and without -d is rejected by the
\* sanity checks on the arguments: the run ends with a usage error before any
\* stage runs and before any file is written.
\* (The code tests -d for -c 2 only; with -c 3 the checks pass and the run stops
\* on db_list[0] with a TypeError.)
C13_ResumeWithoutDatabasesRejected ==
    (args.checkpoint_num \in {2, 3} /\ args.input_files = 0) =>
        /\ pc \in {"start", "usage_error"}
        /\ files = NoFiles

\* C14: a --run_all command line is accepted only with exactly four -d paths:
\* with fewer or more the run is rejected as an argument error before any stage
\* runs, so no stage runs on a part of the listed files.
\* (The code only tests that -d is given: three paths end in an IndexError on
\* db_list[3], and of five paths the first four are processed.)
C14_RunAllNeedsFourDatabases ==
    (args.run_all /\ args.input_files # 4) =>
        /\ pc \in {"start", "usage_error"}
        /\ prog_dicts = NoClusterFiles
        /\ files = NoFiles

\* create_prot_dict has run in this run (-a) and returned
IndexBuilt == files.prot_dict.w

\* the places, in the order of program k's mapping, of the clusters that list prot
ClustersOf(k, prot) ==
    {i \in 1..Len(prog_dicts[k]) :
        \E j \in 1..Len(prog_dicts[k][i].v) : prog_dicts[k][i].v[j] = prot}

\* the record of prot holds in slot k the cluster at place i of program k's mapping
SlotIs(rec, k, i) == rec[k] = prog_dicts[k][i].k

\* C15 (as stated): when a protein id is in more than one cluster of a program's
\* mapping, the slot of that program holds the cluster seen last in the order of
\* the mapping.
C15_LastClusterWins ==
    IndexBuilt =>
        \A e \in 1..Len(prot_dict), k \in 1..4 :
            Cardinality(ClustersOf(k, prot_dict[e].k)) > 1 =>
                \E i \in ClustersOf(k, prot_dict[e].k) :
                    /\ \A j \in ClustersOf(k, prot_dict[e].k) : j <= i
                    /\ SlotIs(prot_dict[e].v, k, i)

\* C15 (amended): when a protein id is in more than one cluster of a program's
\* mapping, the slot of that program holds the cluster seen first in the order of
\* the mapping.
C15_FirstClusterWins ==
    IndexBuilt =>
        \A e \in 1..Len(prot_dict), k \in 1..4 :
            Cardinality(ClustersOf(k, prot_dict[e].k)) > 1 =>
                \E i \in ClustersOf(k, prot_dict[e].k) :
                    /\ \A j \in ClustersOf(k, prot_dict[e].k) : i <= j
                    /\ SlotIs(prot_dict[e].v, k, i)

\* C15 witness: the index was built from a mapping that lists a protein in two clusters
C15_Witness ==
    /\ IndexBuilt
    /\ \E e \in 1..Len(prot_dict), k \in 1..4 :
          /\ Cardinality(ClustersOf(k, prot_dict[e].k)) = 2
          /\ prot_dict[e].v[k] = prog_dicts[k][1].k

\* the protein ids listed in the clusters of program k
MembersOf(k) == UNION {SetOf(prog_dicts[k][i].v) : i \in 1..Len(prog_dicts[k])}

\* C16: the index built by create_prot_dict has exactly one record for every protein
\* id of the union of the four programs' member lists and no other key; a record
\* has four slots in the order of the programs, slot k holding a cluster id of
\* program k whose member list contains the protein when program k clusters it,
\* and the sentinel "-" otherwise.
C16_IndexCoversUnion ==
    IndexBuilt =>
        /\ Keys(prot_dict) = UNION {MembersOf(k) : k \in 1..4}
        /\ Len(prot_dict) = Cardinality(Keys(prot_dict))
        /\ \A e \in 1..Len(prot_dict) :
              /\ Len(prot_dict[e].v) = 4
              /\ \A k \in 1..4 :
                    IF ClustersOf(k, prot_dict[e].k) = {}
                    THEN prot_dict[e].v[k] = SENTINEL
                    ELSE \E i \in ClustersOf(k, prot_dict[e].k) : SlotIs(prot_dict[e].v, k, i)

\* C16 witness: an index of two proteins, one of them clustered by the fourth program only
C16_Witness ==
    /\ IndexBuilt
    /\ Len(prot_dict) = 2
    /\ \E e \in 1..2 :
          /\ prot_dict[e].k \in MembersOf(4)
          /\ \A k \in 1..3 : prot_dict[e].v[k] = SENTINEL
          /\ prot_dict[e].v[4] # SENTINEL

\* every cluster id of the index d is a key of its program's mapping, with the
\* protein of the record in its member list
Resolves(d) ==
    \A e \in 1..Len(d), k \in 1..4 :
        d[e].v[k] # SENTINEL =>
            /\ HasKey(prog_dicts[k], d[e].v[k])
            /\ d[e].k \in SetOf(Get(prog_dicts[k], d[e].v[k]))

\* the run stopped inside the loop of membership_test (KeyError)
AbortedInComparator ==
    pc = "aborted" /\ comparison_dict # <<>> /\ ~files.compare_OG_dict.w

\* C17: in a --run_all run the inverse lookup agrees with the forward mapping: a
\* non-sentinel slot k of every record (of the index and of the filtered index)
\* is a key of program k's mapping whose member list contains the protein of the
\* record, so that no resolution of a cluster id fails in the Comparator.
C17_InverseAgreesWithForward ==
    args.run_all =>
        /\ Resolves(prot_dict)
        /\ Resolves(filt_prot_dict)
        /\ ~AbortedInComparator

\* C17 witness: a complete run has compared a protein that two programs put in
\* clusters of different ids
C17_Witness ==
    /\ args.run_all
    /\ pc = "checkpoint4"
    /\ \E e \in 1..Len(filt_prot_dict) :
          Cardinality(SetOf(filt_prot_dict[e].v) \ {SENTINEL}) = 2
    /\ \E n \in 1..6 : ScoreList(n) # <<>>

\* the steps of a run in the order load, index build, filter, compare, aggregate,
\* threshold, report; a checkpoint file is written by the step that ends its
\* stage, with the whole result of the stage, and by no other step
StageStep ==
    \/ /\ pc = "start"
       /\ pc' \in {"checkpoint1", "aborted", "usage_error"}
       /\ files' = files
    \/ /\ pc = "checkpoint1" /\ pc' = "checkpoint2"
       /\ files' = [files EXCEPT !.prot_dict = Written(prot_dict')]
    \/ /\ pc = "checkpoint2" /\ pc' = "checkpoint3"
       /\ files' = [files EXCEPT !.filt_prot_dict = Written(filt_prot_dict')]
    \/ /\ pc = "checkpoint3" /\ pc' = "comparing"
       /\ files' = files
    \/ /\ pc = "comparing" /\ pc' \in {"comparing", "aborted"}
       /\ cmp_i < Len(filt_prot_dict)
       /\ files' = files
    \/ /\ pc = "comparing" /\ pc' = "checkpoint4"
       /\ cmp_i = Len(filt_prot_dict)
       /\ comparison_dict' = comparison_dict
       /\ files' = [files EXCEPT !.compare_OG_dict = Written(comparison_dict)]
    \/ /\ pc = "checkpoint4" /\ pc' = "checkpoint5"
       /\ files' = [files EXCEPT !.og_score_dict = Written(og_score_dict')]
    \/ /\ pc = "checkpoint4" /\ pc' = "aborted"
       /\ files' = files
    \/ /\ pc = "checkpoint5" /\ pc' = "checkpoint6"
       /\ files' = files
    \/ /\ pc = "checkpoint6" /\ pc' = "done"
       /\ threshold_dict' = threshold_dict
       /\ files' = [files EXCEPT !.membership_results =
                       Written(report_lines(threshold_dict, membership_percent))]

\* C18: in a --run_all run the stages are executed strictly in the order load,
\* index build, filter, compare, aggregate, threshold, report; the checkpoint of
\* each of the stages 2 to 5 is written when the stage has produced its whole
\* result and before the next stage starts, and the report is written only after
\* threshold_test has finished.
C18_StagesInOrder == [][args.run_all => StageStep]_vars

\* C18 witness: a complete run has gone through every stage and written its five files
C18_Witness ==
    /\ args.run_all
    /\ pc = "done"
    /\ \A N \in 2..5 : checkpoint_file(N).w
    /\ files.membership_results.w
    /\ Len(filt_prot_dict) >= 1

\* the result of stage N of a run resumed with -c N: nothing yet, or what the -j file holds
StageResult(N) ==
    IF N = 2 THEN prot_dict
    ELSE IF N = 3 THEN filt_prot_dict
    ELSE IF N = 4 THEN comparison_dict
    ELSE og_score_dict

\* C19: a run resumed with -c N executes only the stages after N: the results of
\* the stages before N are never computed, the result of stage N is the one
\* loaded from the -j file, no checkpoint file of a stage up to N is written (for
\* N = 5 no checkpoint file at all), and the four cluster mappings are loaded
\* only for N = 2 and N = 3.
C19_ResumeRunsLaterStagesOnly ==
    args.checkpoint_num # 0 =>
        LET N == args.checkpoint_num
        IN  /\ pc # "checkpoint1"
            /\ \A M \in 2..N : ~checkpoint_file(M).w
            /\ \A M \in 2..(N - 1) : StageResult(M) = <<>>
            /\ StageResult(N) \in {<<>>, json_load(input_json)}
            /\ N >= 4 => cmp_i = 0 /\ pair_score = NoScores /\ prog_dicts = NoClusterFiles
            /\ N = 3 => pc \notin {"checkpoint1", "checkpoint2"}
            /\ N = 4 => pc \notin {"checkpoint1", "checkpoint2", "checkpoint3", "comparing"}
            /\ N = 5 => pc \in {"start", "usage_error", "aborted", "checkpoint5",
                                 "checkpoint6", "done"}

\* C19 witness: a run resumed with -c 5 and four -d paths has ended; it wrote the
\* report and no checkpoint file, and loaded no cluster mapping
C19_Witness ==
    /\ args.checkpoint_num = 5
    /\ args.input_files = 4
    /\ cluster_files # NoClusterFiles
    /\ pc = "done"
    /\ files.membership_results.w
    /\ \A N \in 2..5 : ~checkpoint_file(N).w

\* the checkpoint files of the stage at position p and of the later stages, and
\* the report, are not written
UnwrittenFrom(p) ==
    /\ ~files.membership_results.w
    /\ ~files.og_score_dict.w
    /\ p \in {"start", "comparing"} => ~files.compare_OG_dict.w
    /\ p = "start" => files = NoFiles

\* a checkpoint file that the run wrote holds the whole result of its stage,
\* and that stage has finished
CheckpointsComplete ==
    /\ files.prot_dict.w => files.prot_dict.c = prot_dict
    /\ files.filt_prot_dict.w => files.filt_prot_dict.c = filter_prot_dict(prot_dict)
    /\ files.compare_OG_dict.w =>
          /\ files.compare_OG_dict.c = comparison_dict
          /\ cmp_i = Len(filt_prot_dict)
          /\ pc \notin {"start", "checkpoint1", "checkpoint2", "checkpoint3", "comparing"}
    /\ files.og_score_dict.w =>
          /\ files.og_score_dict.c = og_score_dict
          /\ Keys(og_score_dict) = Keys(comparison_dict)
          /\ pc \in {"checkpoint5", "checkpoint6", "done"}

\* C20: when a run aborts inside a stage (an input that is not JSON, a cluster
\* id of the checkpoint that is missing from a cluster mapping, an empty score
\* list) the step that aborts writes no file, the checkpoint of the aborted
\* stage and of every later stage and the report are not written; and a
\* checkpoint file written by a run always holds the whole result of a stage
\* that finished.
C20_AbortLeavesNoPartialOutput ==
    /\ [][(pc # "aborted" /\ pc' = "aborted") => (files' = files /\ UnwrittenFrom(pc))]_vars
    /\ [](pc = "aborted" => ~files.membership_results.w)
    /\ []CheckpointsComplete

\* C20 witness: a run resumed with -c 2 wrote the filtered index and then stopped
\* in the Comparator on a cluster id that its program's mapping does not hold
C20_Witness ==
    /\ AbortedInComparator
    /\ args.checkpoint_num = 2
    /\ files.filt_prot_dict.w
    /\ ~files.compare_OG_dict.w
    /\ cmp_i >= 1

\* occurrences of x in the sequence s
Count(s, x) == Cardinality({i \in 1..Len(s) : s[i] = x})

\* out can be drawn from list without replacement
DrawnFrom(out, list) == \A i \in 1..Len(out) : Count(out, out[i]) <= Count(list, out[i])

\* the names of the input list, and those left once the required file is removed
ListedNames == read_file_list(argv.input_list)

Available ==
    IF argv.required_file = <<>> THEN ListedNames
    ELSE SelectSeq(ListedNames, LAMBDA name : name # argv.required_file[1])

\* the number of names to draw
Requested == argv.out_count - Len(argv.required_file)

SubsampleEnded == sub_pc \in {"done", "failed"}

OutputAsRequested ==
    /\ sub_pc = "done"
    /\ output_file.w
    /\ Len(output_file.c) = argv.out_count
    /\ argv.required_file # <<>> =>
          /\ output_file.c[1] = argv.required_file[1]
          /\ Count(output_file.c, argv.required_file[1]) = 1
    /\ DrawnFrom(SubSeq(output_file.c, 1 + Len(argv.required_file), Len(output_file.c)),
                 Available)

FailedUnwritten == sub_pc = "failed" /\ ~output_file.w

\* C21, as stated: subsample_list ends with the required file once on the first
\* line and out_count lines in all, the others drawn without replacement from the
\* list without the required file (out_count names drawn from the list when no
\* file is required), and fails without an output file when more names are
\* requested than are available.
C21_SubsampleAsStated ==
    SubsampleEnded =>
        IF Requested > Len(Available) THEN FailedUnwritten ELSE OutputAsRequested

\* C21, amended: as above, and the script also fails without an output file when
\* a file is required and out_count is 0.
C21_Subsample ==
    SubsampleEnded =>
        IF Requested > Len(Available) \/ Requested < 0
        THEN FailedUnwritten
        ELSE OutputAsRequested

\* a list that names the required file twice, and a second name drawn from the rest
C21_Witness ==
    /\ sub_pc = "done"
    /\ argv.required_file # <<>>
    /\ Count(ListedNames, argv.required_file[1]) >= 2
    /\ Len(output_file.c) >= 2

\* a FASTA file: it opens with a header line, and every header line is followed by
\* at least one line of residues
WellFormed(lines) ==
    \/ lines = <<>>
    \/ /\ startswith_gt(lines[1])
       /\ ~startswith_gt(lines[Len(lines)])
       /\ \A i \in 1..(Len(lines) - 1) : startswith_gt(lines[i]) => ~startswith_gt(lines[i + 1])

\* the sequence of the record whose header line is line i: the lines of residues
\* from there to the next header line
RecordAt(lines, i) ==
    LET last == CHOOSE j \in i..Len(lines) :
                    /\ \A k \in (i + 1)..j : ~startswith_gt(lines[k])
                    /\ j = Len(lines) \/ startswith_gt(lines[j + 1])
    IN  [k \in 1..(last - i) |-> strip(lines[i + k])]

\* the sequences found under a header in a file
SequencesUnder(lines, seq_header) ==
    {RecordAt(lines, i) : i \in {i \in 1..Len(lines) : strip(lines[i]) = <<">">> \o seq_header}}

AllIdentical(row) ==
    Cardinality(SequencesUnder(fasta_files[row.origin_file], row.seq_header)) = 1

SomeDifferent(row) ==
    Cardinality(SequencesUnder(fasta_files[row.origin_file], row.seq_header)) >= 2

\* the rows checked so far
CheckedRows == SubSeq(ref_df, 1, row_i)

\* the headers of a sequence of rows, in the order of the rows
HeadersOf(rows) == [i \in 1..Len(rows) |-> rows[i].seq_header]

\* C22: checkFASTA_dupes writes the header of a row to the _True file if and only
\* if at least one sequence is found under it in the file and all of them are
\* identical, to the _False file if and only if two different sequences are found,
\* and to neither when the header does not occur (FASTA files that are well formed).
C22_HeaderFiledBySequences ==
    (dupes_pc \in {"rows", "done"} /\ \A f \in FastaNames : WellFormed(fasta_files[f])) =>
        /\ outfile_dupes = HeadersOf(SelectSeq(CheckedRows, AllIdentical))
        /\ outfile_diffs = HeadersOf(SelectSeq(CheckedRows, SomeDifferent))

\* the same dict: the same keys with the same values, in whatever order
SameDict(d1, d2) == {d1[i] : i \in 1..Len(d1)} = {d2[i] : i \in 1..Len(d2)}

\* the same scores, each as often, in whatever order
SameScores(l1, l2) ==
    /\ Len(l1) = Len(l2)
    /\ \A i \in 1..Len(l1) : Count(l1, l1[i]) = Count(l2, l1[i])

\* one order of visiting the protein ids of the loaded cluster files
ReferenceOrder == CHOOSE o \in Orders(prot_queries(prog_dicts)) : TRUE

\* the stage results of the run that visits the protein ids in ReferenceOrder
ReferenceFiltered == filter_prot_dict(create_prot_dict(prog_dicts, ReferenceOrder))

ReferenceScores == membership_test(ReferenceFiltered, prog_dicts, program_list).cd

\* C23: the results of a complete run do not depend on the order in which the
\* protein ids are visited: whatever the order, the filtered index is the same
\* mapping, every pair's score list holds the same scores as a multiset, and the
\* means and the threshold result are the same as in the run that visits the
\* protein ids in one fixed order.
C23_OrderIndependent ==
    /\ FilterRan => SameDict(filt_prot_dict, ReferenceFiltered)
    /\ pc \in {"checkpoint4", "checkpoint5", "checkpoint6", "done"} =>
          LET reference == ReferenceScores
              means == avg_membership_scores(reference)
          IN  /\ Keys(comparison_dict) = Keys(reference)
              /\ \A n \in 1..6 :
                    SameScores(ScoreList(n),
                               Get(reference, comparison_name(program_list, n)))
              /\ pc # "checkpoint4" => SameDict(og_score_dict, means)
              /\ pc \in {"checkpoint6", "done"} =>
                    SameDict(threshold_dict, threshold_test(means, membership_percent))

\* a complete run that visited the protein ids in another order than the reference
\* run and holds a score list in another order
C23_Witness ==
    /\ pc = "done"
    /\ filt_prot_dict # ReferenceFiltered
    /\ \E n \in 1..6 :
          ScoreList(n) # Get(ReferenceScores, comparison_name(program_list, n))
    /\ threshold_dict # <<>>

\* membership_test has returned in this run: compare_OG_dict_<id>.json is written
ComparatorDone == ComparatorRan /\ files.compare_OG_dict.w

\* C24: after the Comparator stage the score-list map has exactly six keys, one
\* per pair of programs, whatever four program names were given (names that
\* repeat included): no two pairs share a key.
C24_SixKeysForAnyNames ==
    ComparatorDone =>
        /\ Len(comparison_dict) = 6
        /\ \A m, n \in 1..6 :
              m # n => comparison_name(program_list, m) # comparison_name(program_list, n)

\* C25: all six comparisons are scored by one rule: for the pair of programs a
\* and b, a before b, the ratio appended for a protein id is computed with
\* program a's member list as the first sequence and program b's as the second.
C25_SameArgumentOrder ==
    (pc = "comparing" /\ cmp_i >= 1) =>
        LET rec == filt_prot_dict[cmp_i].v
        IN  \A n \in 1..6 :
               comparable(rec, n) =>
                   ScoreList(n)[Len(ScoreList(n))]
                       = ratio(MemberListA(rec, n), MemberListB(rec, n))

\* the files named on the command line have been loaded in this run
Loaded ==
    /\ pc \notin {"not_run", "start", "usage_error"}
    /\ ~load_fails(args.checkpoint_num \in {0, 2, 3})

\* C26: no stage modifies what it reads: the four cluster mappings and the object
\* loaded from the checkpoint file still equal what was loaded, and the
\* membership index, the filtered index, the score-list map and the mean map
\* still equal the value they had when their stage produced (and wrote) them,
\* after every later stage.
C26_StagesReadOnly ==
    /\ Loaded =>
          /\ args.checkpoint_num \in {0, 2, 3} => prog_dicts = load_prog_dicts
          /\ args.checkpoint_num = 2 => prot_dict = json_load(input_json)
          /\ args.checkpoint_num = 3 => filt_prot_dict = json_load(input_json)
          /\ args.checkpoint_num = 4 => comparison_dict = json_load(input_json)
          /\ args.checkpoint_num = 5 => og_score_dict = json_load(input_json)
    /\ files.prot_dict.w => prot_dict = files.prot_dict.c
    /\ files.filt_prot_dict.w => filt_prot_dict = files.filt_prot_dict.c
    /\ files.compare_OG_dict.w => comparison_dict = files.compare_OG_dict.c
    /\ files.og_score_dict.w => og_score_dict = files.og_score_dict.c

\* a complete run has ended: the four stages have run on objects that are not
\* empty, and the Threshold Filter has left a pair out of its result
C26_Witness ==
    /\ pc = "done"
    /\ args.run_all
    /\ prot_dict # <<>>
    /\ filt_prot_dict # <<>>
    /\ \A n \in 1..6 : ScoreList(n) # <<>>
    /\ threshold_dict # og_score_dict

====
